---- MODULE Spec2Model ----
(***************************************************************************)
(* Model of run_animation.py: the colour conversion functions, the frame  *)
(* renderer and the playback session with its terminal-mode handling.     *)
(***************************************************************************)
EXTENDS Integers, Sequences, FiniteSets, TLC

(***************************************************************************)
(* Bounds of the model.                                                    *)
(***************************************************************************)
MaxFrames == 3      \* longest frame list of a session
MaxWrites == 5      \* frame writes after which a looping session is cut off
MaxSignals == 2     \* signals (SIGINT, SIGTERM) delivered to one process
MaxFail == 1        \* output calls that raise an I/O error in one process
MaxTokLen == 7      \* longest colour token given to hex_to_rgb
MaxCols == 2        \* longest line of a frame

VARIABLES
    \* ---- playback session (main, play_animation, _term_handler) ----
    frame_count,    \* len(frames)
    loop,           \* the loop argument
    prefer_flicker, \* the prefer_flicker argument
    pc,             \* the statement the main thread is about to execute
    idx,            \* frame index
    using_alt,      \* the using_alt local
    buf,            \* sys.stdout's buffer: written, not yet flushed
    term,           \* what has reached the terminal, in order
    exc,            \* the exception that is propagating ("none" if none)
    sigints,        \* SIGINTs delivered so far
    sigterms,       \* SIGTERMs delivered so far
    fails,          \* output calls that raised so far
    nwrites,        \* frame writes so far
    \* ---- the pure functions, each applied to inputs drawn by its Init ----
    called,         \* whether the function has been applied
    hex_color,      \* hex_to_rgb: the token
    rgb,            \* hex_to_rgb: <<r, g, b>>, or Raised
    gray,           \* rgb_to_ansi256: <<r1, r2>>, two gray levels
    ansi,           \* rgb_to_ansi256: their palette indices
    frame,          \* the frame being prepared
    canvas_width,   \* canvas width, or NoWidth for None
    color_mode,     \* "none", "truecolor" or "256"
    text            \* the text prepared for the frame (line 207 / 209)

playVars == <<frame_count, loop, prefer_flicker, pc, idx, using_alt, buf,
              term, exc, sigints, sigterms, fails, nwrites>>

fnVars == <<called, hex_color, rgb, gray, ansi, frame, canvas_width,
            color_mode, text>>

vars == <<playVars, fnVars>>

(***************************************************************************)
(* Terminal output.  One entry per write call: the escape sequence (or    *)
(* frame) written, the frame index for a frame write, and the function    *)
(* that made the call.                                                     *)
(***************************************************************************)
W(seq, n, by) == [seq |-> seq, n |-> n, by |-> by]

\* hide_cursor(): ESC[?25l into sys.stdout, no flush
hide_cursor(b, by) == Append(b, W("hide", -1, by))

\* enable_alternate_buffer(): ESC[?1049h into sys.stdout, no flush
enable_alternate_buffer(b, by) == Append(b, W("alt_on", -1, by))

\* disable_alternate_buffer(): ESC[?1049l into sys.stdout, no flush
disable_alternate_buffer(b, by) == Append(b, W("alt_off", -1, by))

\* clear_screen(): ESC[2J ESC[H into sys.stdout, no flush
clear_screen(b, by) == Append(b, W("clear", -1, by))

\* show_cursor(): ESC[?25h into sys.stdout, then flush: everything buffered
\* reaches the terminal, the cursor-show last
show_cursor(t, b, by) == t \o b \o <<W("show", -1, by)>>

\* the bytes of one frame write: clear+home+frame or home+frame
FrameWrite(flicker, i) ==
    W(IF flicker THEN "clear+frame" ELSE "home+frame", i, "play")

(***************************************************************************)
(* Exceptions.  KeyboardInterrupt and SystemExit are BaseExceptions, an   *)
(* I/O error is an Exception.                                              *)
(***************************************************************************)
IsException(e) == e = "OSError"

\* statements of play_animation inside try: (lines 224-257)
TryBody == {"try_enter", "alt_enable", "alt_flag", "clear", "fileno",
            "write", "sleep", "advance"}

\* statements inside main's try: but outside play_animation's try body
MainTry == {"call", "print", "precompute", "hide", "set_alt",
            "finally_show", "finally_alt"}

\* where control goes when play_animation's finally block is left
AfterFinally(e) ==
    IF e = "none" THEN "main_return"
    ELSE IF IsException(e) THEN "main_except"
    ELSE "exit"

\* where control goes, and which exception propagates, when e is raised at
\* statement p while pending is propagating
Route(p, e, pending) ==
    IF p \in TryBody
    THEN IF e = "KeyboardInterrupt"
         THEN [pc |-> "except", exc |-> "none"]
         ELSE [pc |-> "finally_show", exc |-> e]
    ELSE IF p = "except"
    THEN [pc |-> "finally_show", exc |-> e]
    ELSE IF p = "finally_alt" /\ IsException(e)
    THEN [pc |-> AfterFinally(pending), exc |-> pending]
    ELSE IF p \in MainTry /\ IsException(e)
    THEN [pc |-> "main_except", exc |-> e]
    ELSE [pc |-> "exit", exc |-> e]

(***************************************************************************)
(* Strings are sequences of one-character strings.                         *)
(***************************************************************************)
Max(S) == CHOOSE x \in S : \A y \in S : y <= x

\* what a function that raised leaves in place of a result
Raised == <<>>

\* Python's None
PyNone == <<>>

RECURSIVE lstrip(_, _)
\* s.lstrip(c): every leading c removed
lstrip(s, c) ==
    IF s # <<>> /\ Head(s) = c THEN lstrip(Tail(s), c) ELSE s

RECURSIVE rstrip(_, _)
\* s.rstrip(c): every trailing c removed
rstrip(s, c) ==
    IF s # <<>> /\ s[Len(s)] = c THEN rstrip(SubSeq(s, 1, Len(s) - 1), c) ELSE s

\* s[a:b] for 0 <= a <= b: clipped to the string, never an error
Slice(s, a, b) ==
    SubSeq(s, a + 1, IF b < Len(s) THEN b ELSE Len(s))

RECURSIVE join(_, _)
\* sep.join(parts)
join(sep, parts) ==
    IF parts = <<>> THEN <<>>
    ELSE IF Len(parts) = 1 THEN parts[1]
    ELSE parts[1] \o <<sep>> \o join(sep, Tail(parts))

RECURSIVE SplitAt(_, _, _)
\* the pieces of s between the separators, cur being the piece in progress
SplitAt(s, sep, cur) ==
    IF s = <<>> THEN <<cur>>
    ELSE IF Head(s) = sep THEN <<cur>> \o SplitAt(Tail(s), sep, <<>>)
    ELSE SplitAt(Tail(s), sep, Append(cur, Head(s)))

\* s.splitlines(): split at newlines; no empty last line after a final
\* newline, and no line at all for the empty string
splitlines(s) ==
    LET pieces == SplitAt(s, "\n", <<>>)
    IN  IF pieces[Len(pieces)] = <<>>
        THEN SubSeq(pieces, 1, Len(pieces) - 1)
        ELSE pieces

(***************************************************************************)
(* hex_to_rgb                                                              *)
(***************************************************************************)
HexDigits == {"0", "f"}

HexValue(c) == IF c = "f" THEN 15 ELSE 0

\* int(s, 16) for a slice s of at most two characters: one or two hex
\* digits, or a sign and one hex digit; anything else raises
IntBase16(s) ==
    IF Len(s) = 1 /\ s[1] \in HexDigits THEN <<HexValue(s[1])>>
    ELSE IF Len(s) = 2 /\ s[1] \in HexDigits /\ s[2] \in HexDigits
         THEN <<16 * HexValue(s[1]) + HexValue(s[2])>>
    ELSE IF Len(s) = 2 /\ s[1] = "-" /\ s[2] \in HexDigits
         THEN <<0 - HexValue(s[2])>>
    ELSE Raised

\* lines 49-50: a 3-character token has each character doubled
Doubled(s) ==
    IF Len(s) = 3 THEN <<s[1], s[1], s[2], s[2], s[3], s[3]>> ELSE s

\* lines 47-54
hex_to_rgb(token) ==
    LET h == Doubled(lstrip(token, "#"))
        r == IntBase16(Slice(h, 0, 2))
        g == IntBase16(Slice(h, 2, 4))
        b == IntBase16(Slice(h, 4, 6))
    IN  IF r = Raised \/ g = Raised \/ b = Raised
        THEN Raised
        ELSE <<r[1], g[1], b[1]>>

(***************************************************************************)
(* rgb_to_ansi256                                                          *)
(***************************************************************************)
\* int(round(a / b)) for b > 0: Python rounds a tie to the even neighbour
Round(a, b) ==
    LET q == a \div b
        m == a % b
    IN  IF 2 * m < b THEN q
        ELSE IF 2 * m > b THEN q + 1
        ELSE IF q % 2 = 0 THEN q ELSE q + 1

\* lines 57-70 with the two ends of the gray ramp exchanged
rgb_to_ansi256_swapped(r, g, b) ==
    IF r = g /\ g = b
    THEN IF r < 8 THEN 231
         ELSE IF r > 248 THEN 16
         ELSE 232 + Round((r - 8) * 24, 247)
    ELSE 16 + 36 * Round(r * 5, 255) + 6 * Round(g * 5, 255) + Round(b * 5, 255)

\* lines 57-70
rgb_to_ansi256(r, g, b) ==
    IF r = g /\ g = b
    THEN IF r < 8 THEN 16
         ELSE IF r > 248 THEN 231
         ELSE 232 + Round((r - 8) * 24, 247)
    ELSE 16 + 36 * Round(r * 5, 255) + 6 * Round(g * 5, 255) + Round(b * 5, 255)


(***************************************************************************)
(* Frames and their text.  A frame holds contentString (empty if absent), *)
(* content (a list of lines, if hasContent) and colors.foreground: fg.kind *)
(* is "map" for a string holding a JSON object, whose entries then map a   *)
(* key (the integers between its commas) to a token; "absent", "notstr"    *)
(* (not a string), "badjson" (not JSON) or "nonmap" (JSON, no object).     *)
(***************************************************************************)
\* lines 33-44
frame_to_text(f) ==
    IF f.contentString # <<>> THEN rstrip(f.contentString, "\n")
    ELSE IF f.hasContent
         THEN join("\n", [i \in 1..Len(f.content) |-> rstrip(f.content[i], "\n")])
         ELSE <<>>

\* the pieces of a rendered text
Ch(c) == [k |-> "ch", c |-> c, v |-> <<>>]
Reset == [k |-> "reset", c |-> "", v |-> <<>>]
Fg24(t) == [k |-> "fg24", c |-> "", v |-> t]
Fg256(code) == [k |-> "fg256", c |-> "", v |-> <<code>>]

\* lines 91-108: keys are "col,row"; an entry whose key does not split in
\* two is skipped, a foreground that is no JSON object gives an empty map
color_map(f) ==
    IF f.fg.kind = "map"
    THEN {[pos |-> <<e.key[2], e.key[1]>>, val |-> e.val] :
              e \in {x \in f.fg.entries : Len(x.key) = 2}}
    ELSE {}

\* line 120: color_map.get((row_idx, col_idx))
Lookup(cm, row_idx, col_idx) ==
    IF \E e \in cm : e.pos = <<row_idx, col_idx>>
    THEN (CHOOSE e \in cm : e.pos = <<row_idx, col_idx>>).val
    ELSE PyNone

\* lines 121-127: the cell's r, g, b; PyNone stands for r = g = b = None
Resolve(color) ==
    IF color # PyNone THEN hex_to_rgb(color) ELSE PyNone

\* lines 129-148 with an escape pair before every coloured character
ColorStepPerChar(mode, c, prev) ==
    IF mode = "truecolor"
    THEN [out |-> (IF prev # PyNone THEN <<Reset>> ELSE <<>>)
                  \o (IF c # PyNone THEN <<Fg24(c)>> ELSE <<>>),
          prev |-> IF c # PyNone THEN <<c>> ELSE PyNone]
    ELSE IF mode = "256"
    THEN LET code == IF c # PyNone
                     THEN <<rgb_to_ansi256(c[1], c[2], c[3])>>
                     ELSE PyNone
         IN  [out |-> (IF prev # PyNone THEN <<Reset>> ELSE <<>>)
                      \o (IF code # PyNone THEN <<Fg256(code[1])>> ELSE <<>>),
              prev |-> code]
    ELSE [out |-> <<>>, prev |-> prev]

\* lines 129-148: what is emitted before one character, and the new
\* prev_color.  In truecolor mode prev_color is None or the tuple (r, g, b),
\* modelled <<c>>: the tuple (None, None, None) is <<PyNone>>, not PyNone.
\* In 256 mode it is None or the palette index, modelled <<code>>.
ColorStep(mode, c, prev) ==
    IF mode = "truecolor"
    THEN IF <<c>> # prev
         THEN [out |-> (IF prev # PyNone THEN <<Reset>> ELSE <<>>)
                       \o (IF c # PyNone THEN <<Fg24(c)>> ELSE <<>>),
               prev |-> <<c>>]
         ELSE [out |-> <<>>, prev |-> prev]
    ELSE IF mode = "256"
    THEN LET code == IF c # PyNone
                     THEN <<rgb_to_ansi256(c[1], c[2], c[3])>>
                     ELSE PyNone
         IN  IF code # prev
             THEN [out |-> (IF prev # PyNone THEN <<Reset>> ELSE <<>>)
                           \o (IF code # PyNone THEN <<Fg256(code[1])>> ELSE <<>>),
                   prev |-> code]
             ELSE [out |-> <<>>, prev |-> prev]
    ELSE [out |-> <<>>, prev |-> prev]

RECURSIVE RenderLine(_, _, _, _, _, _)
\* lines 117-153: one row from column col_idx on
RenderLine(line, row_idx, col_idx, prev, cm, mode) ==
    IF col_idx >= Len(line)
    THEN IF prev # PyNone THEN <<Reset>> ELSE <<>>
    ELSE LET st == ColorStep(mode, Resolve(Lookup(cm, row_idx, col_idx)), prev)
         IN  st.out \o <<Ch(line[col_idx + 1])>>
             \o RenderLine(line, row_idx, col_idx + 1, st.prev, cm, mode)

MaxLen(lines) ==
    IF lines = <<>> THEN 0
    ELSE Max({Len(lines[i]) : i \in 1..Len(lines)})

\* lines 88-89: the width to pad to; width is <<w>>, or PyNone for None
PadWidth(lines, width) ==
    IF width = PyNone THEN MaxLen(lines) ELSE width[1]

\* lines 114-115: pad to width to keep alignment
Pad(line, w) ==
    IF w # 0 /\ Len(line) < w
    THEN line \o [i \in 1..(w - Len(line)) |-> " "]
    ELSE line

\* lines 110-153: out_lines
render_lines(f, width, mode) ==
    LET lines == splitlines(frame_to_text(f))
        w == PadWidth(lines, width)
        cm == color_map(f)
    IN  [i \in 1..Len(lines) |->
            RenderLine(Pad(lines[i], w), i - 1, 0, PyNone, cm, mode)]

\* '\n'.join(out_lines) for rendered lines
JoinLines(out_lines) ==
    IF out_lines = <<>> THEN <<>>
    ELSE LET F[i \in 1..Len(out_lines)] ==
                 IF i = 1 THEN out_lines[1]
                 ELSE F[i - 1] \o <<Ch("\n")>> \o out_lines[i]
         IN  F[Len(out_lines)]

\* lines 85-155
render_frame_with_colors(f, width, mode) ==
    JoinLines(render_lines(f, width, mode))

\* lines 206-212: the text play_animation prepares for one frame
PrepareText(f, width, mode) ==
    IF mode # "none"
    THEN render_frame_with_colors(f, width, mode)
    ELSE LET t == frame_to_text(f)
         IN  [i \in 1..Len(t) |-> Ch(t[i])]

\* the functions' variables while the playback session is modelled
FnIdle ==
    /\ called = FALSE
    /\ hex_color = <<>>
    /\ rgb = <<>>
    /\ gray = <<>>
    /\ ansi = <<>>
    /\ frame = <<>>
    /\ canvas_width = <<>>
    /\ color_mode = "none"
    /\ text = <<>>

Init ==
    /\ FnIdle
    /\ frame_count \in 0..MaxFrames
    /\ loop \in BOOLEAN
    /\ prefer_flicker \in BOOLEAN
    /\ pc = "call"
    /\ idx = 0
    /\ using_alt = FALSE
    /\ buf = <<>>
    /\ term = <<>>
    /\ exc = "none"
    /\ sigints = 0
    /\ sigterms = 0
    /\ fails = 0
    /\ nwrites = 0

(***************************************************************************)
(* play_animation, statement by statement.                                 *)
(***************************************************************************)
\* line 185 without the test for an empty frame list
PlayEntryNoCheck ==
    /\ pc = "call"
    /\ pc' = "precompute"
    /\ UNCHANGED fnVars
    /\ UNCHANGED <<frame_count, loop, prefer_flicker, idx, using_alt, buf,
                   term, exc, sigints, sigterms, fails, nwrites>>

\* line 185: if not frames
PlayEntry ==
    /\ pc = "call"
    /\ pc' = IF frame_count = 0 THEN "print" ELSE "precompute"
    /\ UNCHANGED fnVars
    /\ UNCHANGED <<frame_count, loop, prefer_flicker, idx, using_alt, buf,
                   term, exc, sigints, sigterms, fails, nwrites>>

\* lines 186-187: print("No frames found in animation."); return
\* (a line written to sys.stdout; the newline flushes a terminal's stream)
PrintNoFrames ==
    /\ pc = "print"
    /\ term' = term \o buf \o <<W("msg", -1, "play")>>
    /\ buf' = <<>>
    /\ pc' = "main_return"
    /\ UNCHANGED fnVars
    /\ UNCHANGED <<frame_count, loop, prefer_flicker, idx, using_alt, exc,
                   sigints, sigterms, fails, nwrites>>

\* lines 189-220: idx = 0, texts, encoded_frames, durations
Precompute ==
    /\ pc = "precompute"
    /\ idx' = 0
    /\ pc' = "hide"
    /\ UNCHANGED fnVars
    /\ UNCHANGED <<frame_count, loop, prefer_flicker, using_alt, buf, term,
                   exc, sigints, sigterms, fails, nwrites>>

\* line 221: hide_cursor()
HideCursor ==
    /\ pc = "hide"
    /\ buf' = hide_cursor(buf, "play")
    /\ pc' = "set_alt"
    /\ UNCHANGED fnVars
    /\ UNCHANGED <<frame_count, loop, prefer_flicker, idx, using_alt, term,
                   exc, sigints, sigterms, fails, nwrites>>

\* line 222: using_alt = False
SetAlt ==
    /\ pc = "set_alt"
    /\ using_alt' = FALSE
    /\ pc' = "try_enter"
    /\ UNCHANGED fnVars
    /\ UNCHANGED <<frame_count, loop, prefer_flicker, idx, buf, term, exc,
                   sigints, sigterms, fails, nwrites>>

\* lines 223-224: try: if not prefer_flicker
TryEnter ==
    /\ pc = "try_enter"
    /\ pc' = IF prefer_flicker THEN "fileno" ELSE "alt_enable"
    /\ UNCHANGED fnVars
    /\ UNCHANGED <<frame_count, loop, prefer_flicker, idx, using_alt, buf,
                   term, exc, sigints, sigterms, fails, nwrites>>

\* line 226: enable_alternate_buffer()
EnableAlt ==
    /\ pc = "alt_enable"
    /\ buf' = enable_alternate_buffer(buf, "play")
    /\ pc' = "alt_flag"
    /\ UNCHANGED fnVars
    /\ UNCHANGED <<frame_count, loop, prefer_flicker, idx, using_alt, term,
                   exc, sigints, sigterms, fails, nwrites>>

\* line 227: using_alt = True
AltFlag ==
    /\ pc = "alt_flag"
    /\ using_alt' = TRUE
    /\ pc' = "clear"
    /\ UNCHANGED fnVars
    /\ UNCHANGED <<frame_count, loop, prefer_flicker, idx, buf, term, exc,
                   sigints, sigterms, fails, nwrites>>

\* line 229: clear_screen()
ClearScreen ==
    /\ pc = "clear"
    /\ buf' = clear_screen(buf, "play")
    /\ pc' = "fileno"
    /\ UNCHANGED fnVars
    /\ UNCHANGED <<frame_count, loop, prefer_flicker, idx, using_alt, term,
                   exc, sigints, sigterms, fails, nwrites>>

\* line 231: fd = sys.stdout.fileno()
Fileno ==
    /\ pc = "fileno"
    /\ pc' = "write"
    /\ UNCHANGED fnVars
    /\ UNCHANGED <<frame_count, loop, prefer_flicker, idx, using_alt, buf,
                   term, exc, sigints, sigterms, fails, nwrites>>

\* lines 235-241: os.write(fd, ... + encoded_frames[idx]), straight to the
\* file descriptor, past sys.stdout's buffer
WriteFrame ==
    /\ pc = "write"
    /\ nwrites < MaxWrites
    /\ term' = Append(term, FrameWrite(prefer_flicker, idx))
    /\ nwrites' = nwrites + 1
    /\ pc' = "sleep"
    /\ UNCHANGED fnVars
    /\ UNCHANGED <<frame_count, loop, prefer_flicker, idx, using_alt, buf,
                   exc, sigints, sigterms, fails>>

\* lines 243-250: sleep in slices until the frame's duration has elapsed
Sleep ==
    /\ pc = "sleep"
    /\ pc' = "advance"
    /\ UNCHANGED fnVars
    /\ UNCHANGED <<frame_count, loop, prefer_flicker, idx, using_alt, buf,
                   term, exc, sigints, sigterms, fails, nwrites>>

\* lines 252-257 with idx > frame_count for idx >= frame_count
AdvanceOffByOne ==
    /\ pc = "advance"
    /\ IF idx + 1 > frame_count
       THEN IF loop
            THEN idx' = 0 /\ pc' = "write"
            ELSE idx' = idx + 1 /\ pc' = "finally_show"
       ELSE idx' = idx + 1 /\ pc' = "write"
    /\ UNCHANGED fnVars
    /\ UNCHANGED <<frame_count, loop, prefer_flicker, using_alt, buf, term,
                   exc, sigints, sigterms, fails, nwrites>>

\* lines 252-257: idx += 1; wrap when looping, else break (into finally)
Advance ==
    /\ pc = "advance"
    /\ IF idx + 1 >= frame_count
       THEN IF loop
            THEN idx' = 0 /\ pc' = "write"
            ELSE idx' = idx + 1 /\ pc' = "finally_show"
       ELSE idx' = idx + 1 /\ pc' = "write"
    /\ UNCHANGED fnVars
    /\ UNCHANGED <<frame_count, loop, prefer_flicker, using_alt, buf, term,
                   exc, sigints, sigterms, fails, nwrites>>

\* lines 259-260: except KeyboardInterrupt: pass
ExceptKeyboardInterrupt ==
    /\ pc = "except"
    /\ pc' = "finally_show"
    /\ UNCHANGED fnVars
    /\ UNCHANGED <<frame_count, loop, prefer_flicker, idx, using_alt, buf,
                   term, exc, sigints, sigterms, fails, nwrites>>

\* line 263: finally: show_cursor()
FinallyShow ==
    /\ pc = "finally_show"
    /\ term' = show_cursor(term, buf, "play")
    /\ buf' = <<>>
    /\ pc' = "finally_alt"
    /\ UNCHANGED fnVars
    /\ UNCHANGED <<frame_count, loop, prefer_flicker, idx, using_alt, exc,
                   sigints, sigterms, fails, nwrites>>

\* lines 264-267: try: disable_alternate_buffer() except Exception: pass;
\* then the finally block ends: return, or the pending exception goes on
FinallyAlt ==
    /\ pc = "finally_alt"
    /\ buf' = disable_alternate_buffer(buf, "play")
    /\ pc' = AfterFinally(exc)
    /\ UNCHANGED fnVars
    /\ UNCHANGED <<frame_count, loop, prefer_flicker, idx, using_alt, term,
                   exc, sigints, sigterms, fails, nwrites>>

(***************************************************************************)
(* main around the call.                                                   *)
(***************************************************************************)
\* lines 316-318: except Exception: show_cursor(); raise
MainExcept ==
    /\ pc = "main_except"
    /\ term' = show_cursor(term, buf, "main")
    /\ buf' = <<>>
    /\ pc' = "exit"
    /\ UNCHANGED fnVars
    /\ UNCHANGED <<frame_count, loop, prefer_flicker, idx, using_alt, exc,
                   sigints, sigterms, fails, nwrites>>

\* line 320: return 0
MainReturn ==
    /\ pc = "main_return"
    /\ pc' = "exit"
    /\ UNCHANGED fnVars
    /\ UNCHANGED <<frame_count, loop, prefer_flicker, idx, using_alt, buf,
                   term, exc, sigints, sigterms, fails, nwrites>>

\* lines 323-324: the interpreter exits and flushes sys.stdout
Exit ==
    /\ pc = "exit"
    /\ term' = term \o buf
    /\ buf' = <<>>
    /\ pc' = "done"
    /\ UNCHANGED fnVars
    /\ UNCHANGED <<frame_count, loop, prefer_flicker, idx, using_alt, exc,
                   sigints, sigterms, fails, nwrites>>

(***************************************************************************)
(* Asynchronous events: they arrive between any two statements.            *)
(***************************************************************************)
Running == pc \notin {"exit", "done"}

\* SIGINT: Python's default handler raises KeyboardInterrupt in the main
\* thread at the statement it is about to execute
Interrupt ==
    /\ Running
    /\ sigints + sigterms < MaxSignals
    /\ sigints' = sigints + 1
    /\ pc' = Route(pc, "KeyboardInterrupt", exc).pc
    /\ exc' = Route(pc, "KeyboardInterrupt", exc).exc
    /\ UNCHANGED fnVars
    /\ UNCHANGED <<frame_count, loop, prefer_flicker, idx, using_alt, buf,
                   term, sigterms, fails, nwrites>>

\* lines 295-297: SIGTERM: _term_handler: show_cursor(); sys.exit(0), which
\* raises SystemExit at the statement the main thread is about to execute
TermHandler ==
    /\ Running
    /\ sigints + sigterms < MaxSignals
    /\ sigterms' = sigterms + 1
    /\ term' = show_cursor(term, buf, "term_handler")
    /\ buf' = <<>>
    /\ pc' = Route(pc, "SystemExit", exc).pc
    /\ exc' = Route(pc, "SystemExit", exc).exc
    /\ UNCHANGED fnVars
    /\ UNCHANGED <<frame_count, loop, prefer_flicker, idx, using_alt,
                   sigints, fails, nwrites>>

\* the statements that call into the output stream
OutputCalls == {"print", "hide", "alt_enable", "clear", "fileno", "write",
                "finally_show", "finally_alt", "main_except"}

\* an output call raises an I/O error: nothing is written, the error is
\* raised at that statement (section 4.4: no retry, the failure propagates)
WriteFails ==
    /\ pc \in OutputCalls
    /\ fails < MaxFail
    /\ fails' = fails + 1
    /\ pc' = Route(pc, "OSError", exc).pc
    /\ exc' = Route(pc, "OSError", exc).exc
    /\ UNCHANGED fnVars
    /\ UNCHANGED <<frame_count, loop, prefer_flicker, idx, using_alt, buf,
                   term, sigints, sigterms, nwrites>>

Next ==
    \/ PlayEntry \/ PrintNoFrames \/ Precompute \/ HideCursor \/ SetAlt
    \/ TryEnter \/ EnableAlt \/ AltFlag \/ ClearScreen \/ Fileno
    \/ WriteFrame \/ Sleep \/ Advance \/ ExceptKeyboardInterrupt
    \/ FinallyShow \/ FinallyAlt \/ MainExcept \/ MainReturn \/ Exit
    \/ Interrupt \/ TermHandler \/ WriteFails

Spec == Init /\ [][Next]_vars

(***************************************************************************)
(* The pure functions, each applied once to an input drawn by Init.        *)
(***************************************************************************)
\* the playback session's variables while a function is modelled
PlayIdle ==
    /\ frame_count = 0
    /\ loop = FALSE
    /\ prefer_flicker = FALSE
    /\ pc = "done"
    /\ idx = 0
    /\ using_alt = FALSE
    /\ buf = <<>>
    /\ term = <<>>
    /\ exc = "none"
    /\ sigints = 0
    /\ sigterms = 0
    /\ fails = 0
    /\ nwrites = 0

\* ---- hex_to_rgb ----
\* two hex digits, a letter that is none, the sign and the hash
TokenAlphabet == {"0", "f", "g", "-", "#"}

Tokens == UNION {[1..n -> TokenAlphabet] : n \in 0..MaxTokLen}

InitHex ==
    /\ PlayIdle
    /\ called = FALSE
    /\ hex_color \in Tokens
    /\ rgb = <<>>
    /\ gray = <<>>
    /\ ansi = <<>>
    /\ frame = <<>>
    /\ canvas_width = <<>>
    /\ color_mode = "none"
    /\ text = <<>>

CallHexToRgb ==
    /\ ~called
    /\ called' = TRUE
    /\ rgb' = hex_to_rgb(hex_color)
    /\ UNCHANGED playVars
    /\ UNCHANGED <<hex_color, gray, ansi, frame, canvas_width, color_mode, text>>

NextHex == CallHexToRgb

SpecHex == InitHex /\ [][NextHex]_vars

\* ---- rgb_to_ansi256 on the gray diagonal ----
InitGray ==
    /\ PlayIdle
    /\ called = FALSE
    /\ hex_color = <<>>
    /\ rgb = <<>>
    /\ gray \in {<<r1, r2>> : r1 \in 0..255, r2 \in 0..255}
    /\ ansi = <<>>
    /\ frame = <<>>
    /\ canvas_width = <<>>
    /\ color_mode = "none"
    /\ text = <<>>

CallRgbToAnsi256 ==
    /\ ~called
    /\ called' = TRUE
    /\ ansi' = <<rgb_to_ansi256(gray[1], gray[1], gray[1]),
                 rgb_to_ansi256(gray[2], gray[2], gray[2])>>
    /\ UNCHANGED playVars
    /\ UNCHANGED <<hex_color, rgb, gray, frame, canvas_width, color_mode, text>>

NextGray == CallRgbToAnsi256

SpecGray == InitGray /\ [][NextGray]_vars

\* ---- frame_to_text, render_frame_with_colors, the texts of a session ----
Letters == <<"A", "B", "C", "D", "E">>

\* a line of n characters
Row(n) == SubSeq(Letters, 1, n)

\* frames of no, one or two lines
RowCounts == {0, 1, 2}

Contents == UNION {[1..n -> {Row(k) : k \in 0..MaxCols}] : n \in RowCounts}

\* colour tokens: "#ff0000"; five digits; no hex digits; "00f"
Red == <<"#", "f", "f", "0", "0", "0", "0">>
FiveDigits == <<"f", "0", "0", "0", "0">>
NotHex == <<"g", "g", "g">>
Blue == <<"0", "0", "f">>
Palette == {Red, FiveDigits, NotHex, Blue}

\* one colour or none for each column up to the widest canvas
Patterns == [0..MaxCols -> Palette \cup {PyNone}]

\* the keys a pattern is put under: "col,0", "col,1", both, or "col"
\* alone, which has no row
KeyShapes == {"row0", "row1", "both", "norow"}

Entries(pat, shape) ==
    LET cols == {c \in DOMAIN pat : pat[c] # PyNone}
        rows == IF shape = "row0" THEN {0}
                ELSE IF shape = "row1" THEN {1}
                ELSE IF shape = "both" THEN {0, 1}
                ELSE {}
    IN  {[key |-> <<c, r>>, val |-> pat[c]] : c \in cols, r \in rows}
        \cup (IF shape = "norow"
              THEN {[key |-> <<c>>, val |-> pat[c]] : c \in cols}
              ELSE {})

NoForeground(kind) == [kind |-> kind, entries |-> {}]

Frames ==
    \* content lists with a colour map
    {[contentString |-> <<>>, hasContent |-> TRUE, content |-> c,
      fg |-> [kind |-> "map", entries |-> Entries(p, s)]] :
         c \in Contents, p \in Patterns, s \in KeyShapes}
    \* content lists with no usable foreground
    \cup {[contentString |-> <<>>, hasContent |-> TRUE, content |-> c,
           fg |-> NoForeground(k)] :
         c \in Contents, k \in {"absent", "notstr", "badjson", "nonmap"}}
    \* pre-joined strings, ending in a newline
    \cup {[contentString |-> Append(join("\n", c), "\n"), hasContent |-> FALSE,
           content |-> <<>>, fg |-> NoForeground("absent")] :
         c \in Contents}
    \* the empty frame
    \cup {[contentString |-> <<>>, hasContent |-> FALSE, content |-> <<>>,
           fg |-> NoForeground("absent")]}

\* no canvas width, 0, 1, the longest line and one more
Widths == {PyNone, <<0>>, <<1>>, <<MaxCols>>, <<MaxCols + 1>>}

Modes == {"none", "truecolor", "256"}

InitRender ==
    /\ PlayIdle
    /\ called = FALSE
    /\ hex_color = <<>>
    /\ rgb = <<>>
    /\ gray = <<>>
    /\ ansi = <<>>
    /\ frame \in Frames
    /\ canvas_width \in Widths
    /\ color_mode = "none"
    /\ text = <<>>

\* lines 194-212 for one frame, the colour mode chosen as lines 194-204 do
PrepareTexts ==
    /\ ~called
    /\ called' = TRUE
    /\ \E m \in Modes :
          /\ color_mode' = m
          /\ text' = PrepareText(frame, canvas_width, m)
    /\ UNCHANGED playVars
    /\ UNCHANGED <<hex_color, rgb, gray, ansi, frame, canvas_width>>

NextRender == PrepareTexts

SpecRender == InitRender /\ [][NextRender]_vars

(***************************************************************************)
(* Properties of the playback session.                                     *)
(***************************************************************************)
\* everything written by the process, flushed or not, in call order per stream
Count(t, s) == Cardinality({k \in 1..Len(t) : t[k].seq = s})

IsFrame(e) == e.seq \in {"clear+frame", "home+frame"}

\* the frame writes that reached the terminal, in order
FrameWrites == SelectSeq(term, IsFrame)

\* positions in term of the entries with sequence s
Positions(t, s) == {k \in 1..Len(t) : t[k].seq = s}

\* the terminal's cursor after trace t: visible unless the last cursor
\* escape is a cursor-hide
CursorVisible(t) ==
    LET c == Positions(t, "hide") \cup Positions(t, "show")
    IN  c = {} \/ t[Max(c)].seq = "show"

\* the terminal's buffer after trace t: primary unless the last buffer
\* escape is an alternate-buffer enter
OnPrimary(t) ==
    LET c == Positions(t, "alt_on") \cup Positions(t, "alt_off")
    IN  c = {} \/ t[Max(c)].seq = "alt_off"

Cancelled == sigints + sigterms > 0

\* C1 (as claimed): a session with frames that acquired the terminal and
\* ended by normal completion, user interrupt or termination signal wrote
\* exactly one cursor-show, and exactly one alternate-buffer exit if the
\* alternate buffer was entered and none otherwise.
C1_RestoredExactlyOnce ==
    (pc = "done" /\ frame_count >= 1 /\ fails = 0 /\ Count(term, "hide") > 0)
        => /\ Count(term, "show") = 1
           /\ Count(term, "alt_off") =
                  (IF Count(term, "alt_on") > 0 THEN 1 ELSE 0)

\* C2 (as claimed): once the cursor-hide has been written, whatever
\* cancellation or write failure arrives afterwards, the process ends with
\* the cursor visible and the terminal on the primary buffer.
C2_TerminalRestored ==
    (pc = "done" /\ Count(term, "hide") > 0)
        => CursorVisible(term) /\ OnPrimary(term)

\* C3, order and wrap: the k-th frame write is of frame (k-1) mod N, so the
\* frames go out in index order and frame 0 follows frame N-1.
C3_Order ==
    \A k \in 1..Len(FrameWrites) :
        FrameWrites[k].n = (k - 1) % frame_count

\* C3, loop=false: never an (N+1)-th frame write.
C3_NoExtraWrite == ~loop => Len(FrameWrites) <= frame_count

\* C3, loop=false and undisturbed: exactly N frame writes, then restoration.
C3_CompleteThenRestore(undisturbed) ==
    (pc = "done" /\ ~loop /\ frame_count >= 1 /\ undisturbed)
        => /\ Len(FrameWrites) = frame_count
           /\ \E k \in Positions(term, "show") :
                  /\ term[k].by = "play"
                  /\ \A j \in 1..Len(term) : IsFrame(term[j]) => j < k

\* C3, loop=true: restoration is reached only when disturbed.
C3_LoopRunsOn(disturbed) ==
    (loop /\ frame_count >= 1 /\ pc \in {"finally_show", "finally_alt"})
        => disturbed

\* C3 (as claimed): frames are written in index order with wrap-around; with
\* loop=false and no cancellation exactly N frame writes occur, followed by
\* restoration; with loop=true restoration is reached only if a cancellation
\* arrives.
C3_FrameIndexAsClaimed ==
    /\ C3_Order
    /\ C3_NoExtraWrite
    /\ C3_CompleteThenRestore(~Cancelled)
    /\ C3_LoopRunsOn(Cancelled)

\* C3 (amended): as claimed, with an output write failure counted next to
\* cancellation as what ends a session early.
C3_FrameIndex ==
    /\ C3_Order
    /\ C3_NoExtraWrite
    /\ C3_CompleteThenRestore(~Cancelled /\ fails = 0)
    /\ C3_LoopRunsOn(Cancelled \/ fails > 0)

\* three frames, loop=false, undisturbed: three frame writes, then the end
C3_Witness ==
    /\ pc = "done" /\ ~loop /\ frame_count = 3
    /\ ~Cancelled /\ fails = 0
    /\ Len(FrameWrites) = 3

\* C4: with an empty frame list play_animation itself writes nothing but the
\* "no frames" report (no cursor, buffer, clear or home sequence, no frame),
\* never gets past the report, and has reported when it returns.
C4_EmptyTouchesNothing ==
    frame_count = 0 =>
        /\ \A k \in 1..Len(term \o buf) :
               (term \o buf)[k].by = "play" => (term \o buf)[k].seq = "msg"
        /\ pc \in {"call", "print", "main_return", "main_except", "exit", "done"}
        /\ pc = "main_return" => Count(term, "msg") = 1

\* an empty session that ran to its end: the report and nothing else
C4_Witness ==
    /\ frame_count = 0 /\ pc = "done"
    /\ term = <<W("msg", -1, "play")>>

(***************************************************************************)
(* Properties of the colour conversions.                                   *)
(***************************************************************************)
\* a token without its optional leading '#'
Digits(tok) == IF tok # <<>> /\ Head(tok) = "#" THEN Tail(tok) ELSE tok

\* exactly 3 or 6 hex digits after an optional '#'
WellFormed(tok) ==
    /\ Len(Digits(tok)) \in {3, 6}
    /\ \A i \in 1..Len(Digits(tok)) : Digits(tok)[i] \in HexDigits

\* C7 (as claimed): hex_to_rgb returns a triple with every channel in
\* 0..255 for a token of exactly 3 or 6 hex digits (the 3-digit form with
\* each digit doubled), and raises for every other token.
C7_HexToRgbTotalOrFails ==
    called =>
        IF WellFormed(hex_color)
        THEN /\ rgb # Raised
             /\ \A i \in 1..3 : rgb[i] \in 0..255
             /\ Len(Digits(hex_color)) = 3 =>
                    \A i \in 1..3 : rgb[i] = 17 * HexValue(Digits(hex_color)[i])
        ELSE rgb = Raised

\* C8 (as claimed): rgb_to_ansi256(r, r, r) is non-decreasing in r over
\* 0..255, is 16 at r = 0 and 231 at r = 255.
C8_GrayMonotonicAsClaimed ==
    called =>
        /\ gray[1] <= gray[2] => ansi[1] <= ansi[2]
        /\ gray[1] = 0 => ansi[1] = 16
        /\ gray[2] = 255 => ansi[2] = 231

\* C8 (amended): rgb_to_ansi256(r, r, r) is non-decreasing in r over 0..248
\* and 231 for every r above 248; it is 16 at r = 0 and 231 at r = 255.
C8_GrayMonotonic ==
    called =>
        /\ (gray[1] <= gray[2] /\ gray[2] <= 248) => ansi[1] <= ansi[2]
        /\ gray[2] > 248 => ansi[2] = 231
        /\ gray[1] = 0 => ansi[1] = 16
        /\ gray[2] = 255 => ansi[2] = 231

\* the two ends of the ramp proper: 8 maps to 232, 248 to 255
C8_Witness ==
    called /\ gray = <<8, 248>> /\ ansi = <<232, 255>>

(***************************************************************************)
(* Properties of the prepared texts.                                       *)
(***************************************************************************)
\* the frame's lines as the renderer sees them, padded
PaddedLines ==
    LET lines == splitlines(frame_to_text(frame))
    IN  [i \in 1..Len(lines) |-> Pad(lines[i], PadWidth(lines, canvas_width))]

\* the prepared text, line by line
OutRows == SplitAt(text, Ch("\n"), <<>>)

\* the colour a cell resolves to in a mode: PyNone, <<r, g, b>> or <<index>>
ResolvedIn(mode, row_idx, col_idx) ==
    LET c == Resolve(Lookup(color_map(frame), row_idx, col_idx))
    IN  IF c = PyNone THEN PyNone
        ELSE IF mode = "256" THEN <<rgb_to_ansi256(c[1], c[2], c[3])>>
        ELSE c

\* the resolved colours of the cells of line i (1-based), in column order
RowColors(i) ==
    [j \in 1..Len(PaddedLines[i]) |-> ResolvedIn(color_mode, i - 1, j - 1)]

\* maximal runs of consecutive cells with the same non-absent colour
Runs(colors) ==
    Cardinality({j \in 1..Len(colors) :
        colors[j] # PyNone /\ (j = 1 \/ colors[j - 1] # colors[j])})

Sets(row) == Cardinality({j \in 1..Len(row) : row[j].k \in {"fg24", "fg256"}})

Resets(row) == Cardinality({j \in 1..Len(row) : row[j].k = "reset"})

Coloured == called /\ color_mode \in {"truecolor", "256"}

\* C5 (as claimed): in both colour modes a reset is emitted only when a
\* colour is active, so every row has as many resets as colour-set escapes,
\* a row without a coloured cell has no escape at all, and ["AB"] with
\* #ff0000 at row 0, column 0, truecolor, width 2 renders as
\* ESC[38;2;255;0;0m A ESC[0m B.
C5_ResetOnlyWhenActive ==
    Coloured =>
        /\ \A i \in 1..Len(PaddedLines) :
              /\ Resets(OutRows[i]) = Sets(OutRows[i])
              /\ (\A j \in 1..Len(RowColors(i)) : RowColors(i)[j] = PyNone)
                     => Resets(OutRows[i]) + Sets(OutRows[i]) = 0
        /\ ( /\ color_mode = "truecolor"
             /\ PaddedLines = <<Row(2)>>
             /\ color_map(frame) = {[pos |-> <<0, 0>>, val |-> Red]} )
               => text = <<Fg24(<<255, 0, 0>>), Ch("A"), Reset, Ch("B")>>

\* C6: in both colour modes the colour-set escapes of a row are as many as
\* its maximal runs of cells with the same resolved colour, and a row whose
\* cells (padding included) all have one colour has exactly one colour-set
\* escape and one reset.
C6_EscapeRuns ==
    Coloured =>
        \A i \in 1..Len(PaddedLines) :
            /\ Sets(OutRows[i]) = Runs(RowColors(i))
            /\ ( /\ Len(RowColors(i)) >= 1
                 /\ RowColors(i)[1] # PyNone
                 /\ \A j \in 1..Len(RowColors(i)) : RowColors(i)[j] = RowColors(i)[1] )
                   => Sets(OutRows[i]) = 1 /\ Resets(OutRows[i]) = 1

\* a line of two characters padded to three, all three cells red: one
\* colour-set escape, the three cells, one reset
C6_Witness ==
    /\ called /\ color_mode = "truecolor"
    /\ frame.content = <<Row(2)>> /\ canvas_width = <<3>>
    /\ text = <<Fg24(<<255, 0, 0>>), Ch("A"), Ch("B"), Ch(" "), Reset>>

\* the lines a frame was given with
RawLines ==
    IF frame.contentString # <<>> THEN splitlines(frame.contentString)
    ELSE frame.content

\* a line right-padded with spaces to w
PadTo(line, w) ==
    IF Len(line) < w THEN line \o [i \in 1..(w - Len(line)) |-> " "] ELSE line

\* C9 (as claimed): in colour mode none, for a frame with an empty colour
\* map, the prepared text is the frame's raw lines, each right-padded to the
\* canvas width when one is given, joined by newlines, without any escape.
C9_PlainTextPadded ==
    (called /\ color_mode = "none" /\ color_map(frame) = {}) =>
        LET w == IF canvas_width = PyNone THEN 0 ELSE canvas_width[1]
            expected == join("\n", [i \in 1..Len(RawLines) |-> PadTo(RawLines[i], w)])
        IN  /\ text = [i \in 1..Len(expected) |-> Ch(expected[i])]
            /\ \A i \in 1..Len(text) : text[i].k = "ch"

\* the frame without the malformed entries of its colour map: those whose
\* key has no "col,row" shape and those whose token is not 3 or 6 hex digits
WithoutMalformed(f) ==
    [f EXCEPT !.fg =
        IF f.fg.kind = "map"
        THEN [kind |-> "map",
              entries |-> {e \in f.fg.entries :
                               Len(e.key) = 2 /\ WellFormed(e.val)}]
        ELSE NoForeground("absent")]

\* C10 (as claimed): the rendering of a frame is the rendering of the same
\* frame with the malformed entries removed from its colour map.
C10_MalformedIgnored ==
    Coloured =>
        text = render_frame_with_colors(WithoutMalformed(frame), canvas_width,
                                        color_mode)

====
